---- MODULE Spec2Model ----
(***************************************************************************)
(* A model of tapi.rs (src/main.rs): extractors, the HList chain they are  *)
(* composed into with with_extractor, and Extractable::extract over that   *)
(* chain, run against one request (Parts, Bytes).                          *)
(*                                                                         *)
(* Strings of the request path are sequences of one-character strings; the *)
(* body is a sequence of JSON tokens.  HNil is the empty sequence and      *)
(* HCons {head, tail} is the sequence with head in front of tail.          *)
(***************************************************************************)
EXTENDS Integers, Sequences, FiniteSets, TLC

VARIABLES endpoint, parts, bytes, pc, heads, fut, polls, ret, result, log, saved

vars == <<endpoint, parts, bytes, pc, heads, fut, polls, ret, result, log, saved>>

\* ------------------------------------------------------------------ bounds

\* The longest chain the builder makes.
MaxChain == 3

\* How often the extractor futures of one run return Pending before Ready.
MaxSuspend == 1

\* ------------------------------------------------------------- frunk HList

HNil == <<>>

HCons(head, tail) == <<head>> \o tail

\* ------------------------------------------------------ Option and Result

None == [some |-> FALSE]

Some(v) == [some |-> TRUE, v |-> v]

Err == [ok |-> FALSE]

Ok(v) == [ok |-> TRUE, v |-> v]

\* ------------------------------------------------------------ path strings

\* str::split(sep): the pieces between the separators; n separators give
\* n + 1 pieces, empty ones included.
RECURSIVE SplitFrom(_, _, _, _)
SplitFrom(s, sep, cur, acc) ==
    IF s = <<>> THEN Append(acc, cur)
    ELSE IF Head(s) = sep THEN SplitFrom(Tail(s), sep, <<>>, Append(acc, cur))
    ELSE SplitFrom(Tail(s), sep, Append(cur, Head(s)), acc)

Split(s, sep) == SplitFrom(s, sep, <<>>, <<>>)

\* A variant of Nth that counts from 1.
NthOneBased(it, n) == IF n >= 1 /\ n <= Len(it) THEN Some(it[n]) ELSE None

\* Iterator::nth(n), counted from 0.
Nth(it, n) == IF n + 1 <= Len(it) THEN Some(it[n + 1]) ELSE None

DigitChars == <<"0", "1", "2", "3", "4", "5", "6", "7", "8", "9">>

IsDigit(c) == \E d \in 1..10 : DigitChars[d] = c

DigitVal(c) == (CHOOSE d \in 1..10 : DigitChars[d] = c) - 1

RECURSIVE StripZeros(_)
StripZeros(ds) ==
    IF Len(ds) > 1 /\ Head(ds) = 0 THEN StripZeros(Tail(ds)) ELSE ds

\* u64::MAX = 18446744073709551615, as decimal digits.
U64MaxDigits == <<1,8,4,4,6,7,4,4,0,7,3,7,0,9,5,5,1,6,1,5>>

RECURSIVE LexLeq(_, _)
LexLeq(a, b) ==
    IF a = <<>> THEN TRUE
    ELSE IF Head(a) # Head(b) THEN Head(a) < Head(b)
    ELSE LexLeq(Tail(a), Tail(b))

FitsU64(ds) ==
    \/ Len(ds) < Len(U64MaxDigits)
    \/ Len(ds) = Len(U64MaxDigits) /\ LexLeq(ds, U64MaxDigits)

\* str::parse::<u64>(): an optional "+", then one or more decimal digits, the
\* number at most u64::MAX.  A u64 is kept as its decimal digits without
\* leading zeros, so that the whole range is representable.
ParseU64(s) ==
    LET body == IF s # <<>> /\ Head(s) = "+" THEN Tail(s) ELSE s
    IN  IF body = <<>> THEN Err
        ELSE IF \E i \in 1..Len(body) : ~IsDigit(body[i]) THEN Err
        ELSE LET ds == StripZeros([i \in 1..Len(body) |-> DigitVal(body[i])])
             IN  IF FitsU64(ds) THEN Ok(ds) ELSE Err

\* ------------------------------------------------------------------ values

StringV(s) == [ty |-> "String", s |-> s]

U64V(ds) == [ty |-> "u64", n |-> ds]

Contact(name, email, age) ==
    [ty |-> "Contact", name |-> name, email |-> email, age |-> age]

\* ------------------------------------------------------------- JSON tokens

LBrace == [t |-> "{"]
RBrace == [t |-> "}"]
LBracket == [t |-> "["]
RBracket == [t |-> "]"]
Colon == [t |-> ":"]
Comma == [t |-> ","]
JStr(s) == [t |-> "str", s |-> s]
JNum(n) == [t |-> "num", n |-> n]

IsStr(tok) == tok.t = "str"

\* A JSON number that is a u8.
IsU8(tok) == tok.t = "num" /\ tok.n >= 0 /\ tok.n <= 255

IsScalar(tok) == tok.t \in {"str", "num"}

\* serde_json::to_string(&contact) of the derived Serialize: the fields in
\* declaration order.
to_string(c) ==
    <<LBrace, JStr("name"), Colon, JStr(c.name), Comma,
      JStr("email"), Colon, JStr(c.email), Comma,
      JStr("age"), Colon, JNum(c.age), RBrace>>

NoFields == [name |-> None, email |-> None, age |-> None]

\* The derived visitor at the end of the input value: every field present,
\* and nothing after the value.
FinishContact(toks, next, acc) ==
    IF next <= Len(toks) THEN Err
    ELSE IF ~acc.name.some \/ ~acc.email.some \/ ~acc.age.some THEN Err
    ELSE Ok(Contact(acc.name.v, acc.email.v, acc.age.v))

\* The derived visit_map: "key": value members, a known field at most once
\* and of its type, an unknown field skipped.
RECURSIVE VisitMap(_, _, _)
VisitMap(toks, i, acc) ==
    IF i + 3 > Len(toks) THEN Err
    ELSE LET key == toks[i]
             val == toks[i + 2]
             sep == toks[i + 3]
         IN  IF ~IsStr(key) \/ toks[i + 1] # Colon \/ ~IsScalar(val) THEN Err
             ELSE IF key.s \in {"name", "email"} /\ ~IsStr(val) THEN Err
             ELSE IF key.s = "age" /\ ~IsU8(val) THEN Err
             ELSE IF key.s \in {"name", "email", "age"} /\ acc[key.s].some THEN Err
             ELSE LET acc2 == CASE key.s = "name" -> [acc EXCEPT !.name = Some(val.s)]
                                [] key.s = "email" -> [acc EXCEPT !.email = Some(val.s)]
                                [] key.s = "age" -> [acc EXCEPT !.age = Some(val.n)]
                                [] OTHER -> acc
                  IN  IF sep = Comma THEN VisitMap(toks, i + 4, acc2)
                      ELSE IF sep = RBrace THEN FinishContact(toks, i + 4, acc2)
                      ELSE Err

\* The derived visit_seq: the fields by position, and no further element.
VisitSeq(toks) ==
    IF Len(toks) < 7 THEN Err
    ELSE IF toks[3] # Comma \/ toks[5] # Comma \/ toks[7] # RBracket THEN Err
    ELSE IF ~IsStr(toks[2]) \/ ~IsStr(toks[4]) \/ ~IsU8(toks[6]) THEN Err
    ELSE FinishContact(toks, 8,
             [name |-> Some(toks[2].s), email |-> Some(toks[4].s),
              age |-> Some(toks[6].n)])

\* serde_json::from_slice::<Contact>(body).
from_slice(body) ==
    IF body = <<>> THEN Err
    ELSE IF Head(body) = LBrace THEN
        IF Len(body) >= 2 /\ body[2] = RBrace
        THEN FinishContact(body, 3, NoFields)
        ELSE VisitMap(body, 2, NoFields)
    ELSE IF Head(body) = LBracket THEN VisitSeq(body)
    ELSE Err

\* ------------------------------------------------------------- the request

\* http::request::Parts, of which the closures read uri.path().
Parts(path) == [path |-> path]

PathHello1337 == <<"/", "h", "e", "l", "l", "o", "/", "1", "3", "3", "7">>
PathHiPlus07 == <<"/", "h", "i", "/", "+", "0", "7", "/", "x">>
PathHello == <<"/", "h", "e", "l", "l", "o">>
PathHello13x7 == <<"/", "h", "e", "l", "l", "o", "/", "1", "3", "x", "7">>

\* "/n/18446744073709551616": segment 2 is u64::MAX + 1.
PathOverflow ==
    <<"/", "n", "/", "1", "8", "4", "4", "6", "7", "4", "4", "0", "7", "3", "7",
      "0", "9", "5", "5", "1", "6", "1", "6">>

\* The contact main serialises into the request body.
contact == Contact("John Doe", "foo@john.com", 42)

contact_as_json == to_string(contact)

\* A body with the fields in another order and a field Contact does not have.
BodyReordered ==
    <<LBrace, JStr("age"), Colon, JNum(7), Comma, JStr("id"), Colon, JNum(300),
      Comma, JStr("email"), Colon, JStr("a@b.c"), Comma,
      JStr("name"), Colon, JStr("Ann"), RBrace>>

\* A body that gives the fields by position, as serde's derived visitor also
\* accepts them.
BodyAsSeq ==
    <<LBracket, JStr("Bob"), Comma, JStr("bob@x.y"), Comma, JNum(255), RBracket>>

\* A body cut off after the name: a syntax error.
BodyTruncated == <<LBrace, JStr("name"), Colon, JStr("John Doe"), Comma>>

\* A well-formed body whose age is no u8: a schema mismatch.
BodyAge300 ==
    <<LBrace, JStr("name"), Colon, JStr("John Doe"), Comma,
      JStr("email"), Colon, JStr("foo@john.com"), Comma,
      JStr("age"), Colon, JNum(300), RBrace>>

\* -------------------------------------------------------------- extractors

\* What a call does: return a value, or panic (Option::unwrap on None,
\* Result::unwrap on Err).
Returned(v) == [returned |-> TRUE, v |-> v]

Panicked == [returned |-> FALSE]

\* |request| request.uri.path().split("/").nth(1).unwrap().to_string()
first_part(request) ==
    LET seg == Nth(Split(request.path, "/"), 1)
    IN  IF seg.some THEN Returned(StringV(seg.v)) ELSE Panicked

\* |request| request.uri.path().split("/").nth(2).unwrap().parse::<u64>().unwrap()
second_part(request) ==
    LET seg == Nth(Split(request.path, "/"), 2)
    IN  IF ~seg.some THEN Panicked
        ELSE LET n == ParseU64(seg.v)
             IN  IF n.ok THEN Returned(U64V(n.v)) ELSE Panicked

\* |body| serde_json::from_slice(body).unwrap()
from_slice_unwrap(body) ==
    LET r == from_slice(body)
    IN  IF r.ok THEN Returned(r.v) ELSE Panicked

\* A decode function that is not serde_json's: fn(&Bytes) -> Contact admits
\* any, this one reads no byte.
fixed_contact(body) == Returned(Contact("nobody", "none", 0))

PathExtractor(f) == [kind |-> "PathExtractor", f |-> f]

BodyExtractor(f) == [kind |-> "BodyExtractor", f |-> f]

extract_first_part == PathExtractor("first_part")

extract_second_part == PathExtractor("second_part")

extract_contact_from_body == BodyExtractor("from_slice_unwrap")

extract_fixed_contact == BodyExtractor("fixed_contact")

Extractors ==
    {extract_first_part, extract_second_part, extract_contact_from_body,
     extract_fixed_contact}

\* self.0(...) for the function pointer an extractor holds.
CallFn(f, request, body) ==
    CASE f = "first_part" -> first_part(request)
      [] f = "second_part" -> second_part(request)
      [] f = "from_slice_unwrap" -> from_slice_unwrap(body)
      [] f = "fixed_contact" -> fixed_contact(body)

\* impl Extractor for PathExtractor<T>
PathExtractorExtract(self, request, body) == CallFn(self.f, request, body)

\* impl Extractor for BodyExtractor<T>: the body of extract decodes with
\* serde_json::from_slice and never reads self.0.
BodyExtractorExtract(self, request, body) ==
    LET r == from_slice(body)
    IN  IF r.ok THEN Returned(r.v) ELSE Panicked

ExtractorExtract(self, request, body) ==
    IF self.kind = "PathExtractor" THEN PathExtractorExtract(self, request, body)
    ELSE BodyExtractorExtract(self, request, body)

\* ------------------------------------------------------------------- chain

empty_endpoint == HNil

\* A variant of with_extractor that puts the new extractor last.
with_extractor_back(self, extractor) == self \o <<extractor>>

\* Extractable::with_extractor: the new extractor is the head, the chain so
\* far is the tail.
with_extractor(self, extractor) == HCons(extractor, self)

\* ------------------------------------------------------------ the program

Request(path, body) == [parts |-> Parts(path), bytes |-> body]

\* The requests the runs are made on: main's, others that every extractor
\* accepts, main's body under paths an extractor fails on, main's path with
\* bodies that decode and bodies that do not.
Requests ==
    {Request(PathHello1337, contact_as_json),
     Request(PathHiPlus07, BodyReordered),
     Request(PathHiPlus07, BodyAsSeq),
     Request(PathOverflow, contact_as_json),
     Request(PathHello, contact_as_json),
     Request(PathHello13x7, contact_as_json),
     Request(PathHello1337, BodyReordered),
     Request(PathHello1337, BodyTruncated),
     Request(PathHello1337, BodyAge300)}

\* The chain the frame at the given depth of the recursion runs on: extract
\* on the whole endpoint is at depth 0, each self.tail.extract one deeper.
SelfAt(depth) == SubSeq(endpoint, depth + 1, Len(endpoint))

\* The self of the innermost frame: every frame above it holds its head.
Self == SelfAt(Len(heads))

Last(s) == s[Len(s)]

Front(s) == SubSeq(s, 1, Len(s) - 1)

Event(ev, link) == [ev |-> ev, ord |-> link.ord]

Init ==
    /\ endpoint = empty_endpoint
    /\ parts = Parts(PathHello1337)
    /\ bytes = contact_as_json
    /\ pc = "build"
    /\ heads = <<>>
    /\ fut = "none"
    /\ polls = 0
    /\ ret = HNil
    /\ result = None
    /\ log = <<>>
    /\ saved = None

\* endpoint.with_extractor(&e).  ord, the number of the append, is history:
\* the code keeps the reference only.
WithExtractor(e) ==
    /\ pc = "build"
    /\ Len(endpoint) < MaxChain
    /\ endpoint' = with_extractor(endpoint, [e |-> e, ord |-> Len(endpoint) + 1])
    /\ saved' = IF saved.some /\ saved.v.endpoint # endpoint THEN None ELSE saved
    /\ UNCHANGED <<parts, bytes, pc, heads, fut, polls, ret, result, log>>

\* A request is split into its parts and its buffered body, and
\* endpoint.extract(&parts, &bytes) is called.
Extract(p, b) ==
    /\ pc = "build"
    /\ parts' = p
    /\ bytes' = b
    /\ pc' = "extract"
    /\ heads' = <<>>
    /\ fut' = "none"
    /\ polls' = 0
    /\ ret' = HNil
    /\ result' = None
    /\ log' = <<>>
    /\ UNCHANGED <<endpoint, saved>>

\* A variant of CanPollHead that does not wait for a pending future, as a
\* join of head and tail would not.
CanPollHeadJoin == fut # "running"

\* self.head.extract(request, body).await is reached only with no other
\* extractor future of the run outstanding.
CanPollHead == fut = "none"

\* HCons::extract calls self.head.extract(request, body) and polls it.
PollHead ==
    /\ pc = "extract"
    /\ CanPollHead
    /\ Self # HNil
    /\ fut' = "running"
    /\ log' = Append(log, Event("start", Head(Self)))
    /\ UNCHANGED <<endpoint, parts, bytes, pc, heads, polls, ret, result, saved>>

\* The extractor's future returns Pending: the whole run is suspended in the
\* .await on it.
Suspend ==
    /\ pc = "extract"
    /\ fut = "running"
    /\ polls < MaxSuspend
    /\ fut' = "pending"
    /\ polls' = polls + 1
    /\ UNCHANGED <<endpoint, parts, bytes, pc, heads, ret, result, log, saved>>

\* The run is polled again and resumes in the same .await.
Resume ==
    /\ pc = "extract"
    /\ fut = "pending"
    /\ fut' = "running"
    /\ UNCHANGED <<endpoint, parts, bytes, pc, heads, polls, ret, result, log, saved>>

\* A variant of HeadReady that replaces a failed extractor's value by a
\* default and goes on.
HeadReadyLenient ==
    /\ pc = "extract"
    /\ fut = "running"
    /\ LET r == ExtractorExtract(Head(Self).e, parts, bytes)
       IN  IF r.returned
           THEN /\ heads' = Append(heads, r.v)
                /\ log' = Append(log, Event("end", Head(Self)))
           ELSE /\ heads' = Append(heads, [ty |-> "Default"])
                /\ log' = Append(log, Event("panic", Head(Self)))
    /\ fut' = "none"
    /\ UNCHANGED <<endpoint, parts, bytes, pc, polls, ret, result, saved>>

\* A variant of HeadReady in which a body extractor takes the bytes out of
\* the request.
HeadReadyTakesBody ==
    /\ pc = "extract"
    /\ fut = "running"
    /\ LET r == ExtractorExtract(Head(Self).e, parts, bytes)
       IN  IF r.returned
           THEN /\ heads' = Append(heads, r.v)
                /\ log' = Append(log, Event("end", Head(Self)))
                /\ pc' = pc
           ELSE /\ heads' = heads
                /\ log' = Append(log, Event("panic", Head(Self)))
                /\ pc' = "panicked"
    /\ bytes' = IF Head(Self).e.kind = "BodyExtractor" THEN <<>> ELSE bytes
    /\ fut' = "none"
    /\ UNCHANGED <<endpoint, parts, polls, ret, result, saved>>

\* The head's future is Ready: its value becomes the frame's head, and the
\* frame goes on to self.tail.extract.  A panic in the extractor unwinds
\* through every frame and through main: the process ends.
HeadReady ==
    /\ pc = "extract"
    /\ fut = "running"
    /\ LET r == ExtractorExtract(Head(Self).e, parts, bytes)
       IN  IF r.returned
           THEN /\ heads' = Append(heads, r.v)
                /\ log' = Append(log, Event("end", Head(Self)))
                /\ pc' = pc
           ELSE /\ heads' = heads
                /\ log' = Append(log, Event("panic", Head(Self)))
                /\ pc' = "panicked"
    /\ fut' = "none"
    /\ UNCHANGED <<endpoint, parts, bytes, polls, ret, result, saved>>

\* A variant of HNilExtract that returns a list holding one empty list.
HNilExtractUnit ==
    /\ pc = "extract"
    /\ fut = "none"
    /\ Self = HNil
    /\ ret' = HCons(HNil, HNil)
    /\ pc' = "return"
    /\ UNCHANGED <<endpoint, parts, bytes, heads, fut, polls, result, log, saved>>

\* impl Extractable for HNil: the innermost extract returns HNil.
HNilExtract ==
    /\ pc = "extract"
    /\ fut = "none"
    /\ Self = HNil
    /\ ret' = HNil
    /\ pc' = "return"
    /\ UNCHANGED <<endpoint, parts, bytes, heads, fut, polls, result, log, saved>>

\* A variant of ConsReturn that puts the head behind the tail.
ConsReturnSwapped ==
    /\ pc = "return"
    /\ heads # <<>>
    /\ ret' = Append(ret, Last(heads))
    /\ heads' = Front(heads)
    /\ UNCHANGED <<endpoint, parts, bytes, pc, fut, polls, result, log, saved>>

\* A variant of ConsReturn that returns the tail alone.
ConsReturnTailOnly ==
    /\ pc = "return"
    /\ heads # <<>>
    /\ ret' = ret
    /\ heads' = Front(heads)
    /\ UNCHANGED <<endpoint, parts, bytes, pc, fut, polls, result, log, saved>>

\* A frame of HCons::extract returns HCons { head, tail } to its caller.
ConsReturn ==
    /\ pc = "return"
    /\ heads # <<>>
    /\ ret' = HCons(Last(heads), ret)
    /\ heads' = Front(heads)
    /\ UNCHANGED <<endpoint, parts, bytes, pc, fut, polls, result, log, saved>>

\* The outermost extract has returned: let result = ...
Finish ==
    /\ pc = "return"
    /\ heads = <<>>
    /\ result' = Some(ret)
    /\ pc' = "done"
    /\ UNCHANGED <<endpoint, parts, bytes, heads, fut, polls, ret, log, saved>>

\* History: the run just completed is kept to compare later runs with.
Remember ==
    /\ pc = "done"
    /\ saved' = Some([endpoint |-> endpoint, parts |-> parts, bytes |-> bytes,
                      result |-> result.v])
    /\ saved' # saved
    /\ UNCHANGED <<endpoint, parts, bytes, pc, heads, fut, polls, ret, result, log>>

\* The result is printed and dropped; the chain stays for the next request.
PrintResult ==
    /\ pc = "done"
    /\ pc' = "build"
    /\ result' = None
    /\ log' = <<>>
    /\ ret' = HNil
    /\ polls' = 0
    /\ UNCHANGED <<endpoint, parts, bytes, heads, fut, saved>>

RunStep ==
    \/ PollHead
    \/ Suspend
    \/ Resume
    \/ HeadReady
    \/ HNilExtract
    \/ ConsReturn
    \/ Finish

Next ==
    \/ \E e \in Extractors : WithExtractor(e)
    \/ \E r \in Requests : Extract(r.parts, r.bytes)
    \/ RunStep
    \/ PrintResult

Spec == Init /\ [][Next]_vars

\* The same program with the history of one earlier run kept beside it.
NextRemembering ==
    \/ Next
    \/ Remember

SpecRemembering == Init /\ [][NextRemembering]_vars

\* ------------------------------------------------------------------ claims

Running == pc \in {"extract", "return"}

InRun == pc \in {"extract", "return", "done", "panicked"}

Links(chain) == {chain[i] : i \in 1..Len(chain)}

Link(e, ord) == [e |-> e, ord |-> ord]

\* The chain of main: first_part appended first, second_part second, the
\* contact body extractor third.
MainChainBuilt ==
    /\ Len(endpoint) = 3
    /\ Links(endpoint) = {Link(extract_first_part, 1), Link(extract_second_part, 2),
                          Link(extract_contact_from_body, 3)}

MainRequest == parts = Parts(PathHello1337) /\ bytes = contact_as_json

Hello == StringV(<<"h", "e", "l", "l", "o">>)

N1337 == U64V(<<1, 3, 3, 7>>)

\* What the extractor of a link yields on the current request.
ValueOf(link) == ExtractorExtract(link.e, parts, bytes)

\* The events of the log that are the given one.
Count(ev, link) == Cardinality({i \in 1..Len(log) : log[i] = Event(ev, link)})

\* The event is in the log before index i.
Before(ev, link, i) == \E k \in 1..(i - 1) : log[k] = Event(ev, link)

ExtractorFailed == \E i \in 1..Len(log) : log[i].ev = "panic"

\* C1 (as stated): the run of main's chain on main's request does not fail and
\* yields "hello", then 1337, then the contact: construction order.
C1_ConstructionOrder ==
    (MainChainBuilt /\ MainRequest /\ InRun) =>
        /\ pc # "panicked"
        /\ pc = "done" => result.v = <<Hello, N1337, contact>>

\* C1 (amended): the run of main's chain on main's request does not fail and
\* yields the contact, then 1337, then "hello": the reverse of construction
\* order, the last appended extractor's value at the head.
C1_WorkedScenario ==
    (MainChainBuilt /\ MainRequest /\ InRun) =>
        /\ pc # "panicked"
        /\ pc = "done" => result = Some(<<contact, N1337, Hello>>)

C1_Witness == MainChainBuilt /\ MainRequest /\ pc = "done"

\* C2 (as stated): when an extractor starts, every extractor appended before
\* it has started and finished.
C2_ConstructionOrderRuns ==
    \A i \in 1..Len(log) : \A link \in Links(endpoint) :
        (log[i].ev = "start" /\ link.ord < log[i].ord) => Before("end", link, i)

\* C2 (amended): extraction order is the reverse of construction order: when
\* an extractor starts, every extractor appended after it has started and
\* finished, and no extractor appended before it has started.
C2_ReverseConstructionOrder ==
    \A i \in 1..Len(log) : \A link \in Links(endpoint) :
        /\ (log[i].ev = "start" /\ link.ord > log[i].ord) =>
               Before("start", link, i) /\ Before("end", link, i)
        /\ (log[i].ev = "start" /\ link.ord < log[i].ord) =>
               ~Before("start", link, i)

C2_Witness == pc = "done" /\ Len(endpoint) = 3 /\ Len(log) = 6

\* C3: an extractor failure never terminates the process: the run returns a
\* failure outcome to its caller.
C3_FailureReturnedToCaller == ExtractorFailed => pc # "panicked"

\* C4: once an extractor has failed, no extractor is started after it, and no
\* aggregate, complete or partial, reaches the caller.
C4_ShortCircuit ==
    \A i \in 1..Len(log) :
        log[i].ev = "panic" =>
            /\ i = Len(log)
            /\ result = None
            /\ pc \notin {"return", "done", "build"}
            /\ ~ENABLED Next

C4_Witness ==
    /\ pc = "panicked"
    /\ Len(heads) >= 1
    /\ Len(heads) + 1 < Len(endpoint)

\* The current chain is the remembered chain with one more with_extractor.
AppendedToSaved ==
    /\ saved.some
    /\ Len(endpoint) = Len(saved.v.endpoint) + 1
    /\ \E e \in Extractors :
           endpoint = with_extractor(saved.v.endpoint, Link(e, Len(endpoint)))

SavedRequest == saved.some /\ saved.v.parts = parts /\ saved.v.bytes = bytes

AppendedLink == CHOOSE link \in Links(endpoint) : link.ord = Len(endpoint)

\* C5: a completed run of C.with_extractor(E) on R yields E's value on R as
\* the head and the aggregate of a run of C on R as the tail.
C5_AppendPreserves ==
    (pc = "done" /\ AppendedToSaved /\ SavedRequest) =>
        /\ ValueOf(AppendedLink).returned
        /\ result = Some(HCons(ValueOf(AppendedLink).v, saved.v.result))

C5_Witness ==
    /\ pc = "done"
    /\ AppendedToSaved
    /\ SavedRequest
    /\ Len(endpoint) = 3

\* C6: a completed run's aggregate has one element per extractor of the
\* chain, the element at each position the value of the extractor at that
\* position; and the chain has one link per append.
C6_AggregateMirrorsChain ==
    /\ {link.ord : link \in Links(endpoint)} = 1..Len(endpoint)
    /\ pc = "done" =>
        /\ result.some
        /\ Len(result.v) = Len(endpoint)
        /\ \A i \in 1..Len(endpoint) :
               /\ ValueOf(endpoint[i]).returned
               /\ result.v[i] = ValueOf(endpoint[i]).v

C6_Witness ==
    /\ pc = "done"
    /\ Len(endpoint) = 3
    /\ \E i, j \in 1..3 : result.v[i].ty # result.v[j].ty

\* C7: the value a body extractor yields is what its own decode function
\* yields on the body.
C7_OwnDecodeFunction ==
    \A i \in 1..Len(heads) :
        endpoint[i].e.kind = "BodyExtractor" =>
            /\ CallFn(endpoint[i].e.f, parts, bytes).returned
            /\ heads[i] = CallFn(endpoint[i].e.f, parts, bytes).v

\* C8: a run changes neither the chain nor the request, and a completed run
\* of a chain on a request yields what an earlier completed run of the same
\* chain on an equal request yielded, whatever ran in between.
C8_IdempotentRead ==
    [][/\ Running => (endpoint' = endpoint /\ parts' = parts /\ bytes' = bytes)
       /\ (pc' = "done" /\ saved'.some /\ saved'.v.endpoint = endpoint'
              /\ saved'.v.parts = parts' /\ saved'.v.bytes = bytes')
            => result' = Some(saved'.v.result)]_vars

C8_Witness ==
    /\ pc = "done"
    /\ saved.some
    /\ saved.v.endpoint = endpoint
    /\ SavedRequest
    /\ Len(endpoint) = 3
    /\ polls = 1

\* The steps of a run other than HeadReady, which is enabled whenever a
\* future is running.
StepBesidesHeadReady == PollHead \/ Resume \/ HNilExtract \/ ConsReturn \/ Finish

HasNextStep == (pc = "extract" /\ fut = "running") \/ ENABLED StepBesidesHeadReady

\* C9: a run of the empty chain invokes no extractor, does not fail, always
\* has a next step until it is done, and yields the empty aggregate.
C9_EmptyChain ==
    (endpoint = HNil /\ InRun) =>
        /\ pc # "panicked"
        /\ log = <<>>
        /\ fut = "none"
        /\ heads = <<>>
        /\ Running => ENABLED StepBesidesHeadReady
        /\ pc = "done" => result = Some(HNil)

C9_Witness == endpoint = HNil /\ pc = "done" /\ result = Some(HNil)

\* C10: at most one extractor is in progress at any moment, suspended or
\* not: an extractor that started ends before the next starts; a run in
\* which none has failed always has a next step; and a completed run has
\* started and ended every extractor of the chain exactly once.
C10_OneAtATime ==
    /\ \A i \in 1..Len(log) :
           (log[i].ev = "start" /\ i < Len(log)) =>
               /\ log[i + 1].ev \in {"end", "panic"}
               /\ log[i + 1].ord = log[i].ord
    /\ (fut # "none") <=> (log # <<>> /\ Last(log).ev = "start")
    /\ Running => HasNextStep
    /\ pc = "done" =>
           \A link \in Links(endpoint) :
               Count("start", link) = 1 /\ Count("end", link) = 1

C10_Witness ==
    /\ fut = "pending"
    /\ Len(endpoint) = 3
    /\ Len(heads) = 1

====
